---- MODULE Spec2Model ----
(***************************************************************************)
(* Hybrid two-stage intent resolution (core/intent_engine.py), the Fast    *)
(* Memory store (core/fast_memory_simple.py) and the feedback loop         *)
(* (core/feedback_manager.py).                                             *)
(*                                                                         *)
(* Scores are kept in hundredths: 0.6 is 60, 1.0 is 100.  Embeddings are   *)
(* unit vectors in the plane, named by their angle in steps of 30 degrees, *)
(* so that a dot product is a table lookup on the angle between them.      *)
(***************************************************************************)
EXTENDS Integers, Sequences, FiniteSets, TLC

VARIABLES
  intents,           \* IntentEngine.intents: the catalog load_intents built
  use_fast_memory,   \* IntentEngine.use_fast_memory, fixed at construction
  store_ok,          \* whether the vector store answers queries
  memories,          \* FastMemory.memories: list of stored exemplars
  embeddings,        \* FastMemory.embeddings: one row per stored embedding
  ctx,               \* the context value the caller holds and passes to resolve
  now,               \* the wall clock, in half seconds
  res,               \* outcome of the latest resolution call
  stats,             \* FeedbackManager.stats (in memory)
  stats_file,        \* contents of feedback_stats.json
  review_file,       \* lines of review_queue.jsonl
  ack,               \* outcome of the latest feedback call
  memory_file,       \* contents of {collection_name}.pkl
  peer,              \* the in-memory state of the other worker process
  submissions,       \* number of feedback submissions acknowledged so far
  found,             \* outcome of the latest direct Fast Memory or Stage 1 call
  calls,             \* per worker: the review-queue call it is in the middle of
  crm,               \* IntentEngine.crm: the ContextResolutionMatrix
  context_engine,    \* a ContextResolutionEngine
  called,            \* outcome of the latest direct call on a context component
  collection,        \* the vector-database FastMemory: entries of its collection
  vector_found       \* outcome of the latest call on the vector-database FastMemory

vars == <<intents, use_fast_memory, store_ok, memories, embeddings, ctx, now, res,
          stats, stats_file, review_file, ack, memory_file, peer, submissions,
          found, calls, crm, context_engine, called, collection, vector_found>>

-----------------------------------------------------------------------------
(* Bounds of the model *)

MaxMem == 1
MaxClock == 1
MaxFeedback == 2
MaxStore == 2

-----------------------------------------------------------------------------
(* Values *)

NoneVal == "None"
NoneNum == 0 - 1000
NoEmbedding == 0 - 1

\* An array whose length is not the length of the rows already stored
WrongShape == 0 - 2

Min(a, b) == IF a < b THEN a ELSE b
Max(a, b) == IF a > b THEN a ELSE b

\* str.lower() on the strings that occur
Lower(s) ==
  CASE s = "Kitchen" -> "kitchen"
    [] s = "Cancel" -> "cancel"
    [] OTHER -> s

\* The dot product of two unit vectors that are d steps of 30 degrees apart
CosTab == <<100, 87, 50, 0, 0 - 50, 0 - 87, 0 - 100>>

AngleDiff(a, b) ==
  LET d == (a - b + 12) % 12 IN IF d > 6 THEN 12 - d ELSE d

Dot(v1, v2) == CosTab[AngleDiff(v1, v2) + 1]

\* Clamp to [0.0, 1.0]
Clamp01(x) == Max(0, Min(100, x))

\* sorted(seq, key=..., reverse=True) and list.sort(key=..., reverse=True) on
\* the field named key: stable, equal keys keep their original order
SortedReverse(seq, key) ==
  LET Rank(i) == Cardinality({j \in 1..Len(seq) :
                                \/ seq[j][key] > seq[i][key]
                                \/ seq[j][key] = seq[i][key] /\ j < i}) + 1
  IN [k \in 1..Len(seq) |-> seq[CHOOSE i \in 1..Len(seq) : Rank(i) = k]]

\* np.argsort(values): indices in ascending order of value (insertion sort
\* below 17 elements, so equal values keep index order)
ArgSort(values) ==
  LET Rank(i) == Cardinality({j \in 1..Len(values) :
                                \/ values[j] < values[i]
                                \/ values[j] = values[i] /\ j < i}) + 1
  IN [k \in 1..Len(values) |-> CHOOSE i \in 1..Len(values) : Rank(i) = k]

Reverse(s) == [i \in 1..Len(s) |-> s[Len(s) + 1 - i]]

\* seq[:n]
Take(s, n) == SubSeq(s, 1, Min(n, Len(s)))

\* seq[-n:], which for n = 0 is seq[0:], the whole sequence
Last(s, n) == IF n = 0 THEN s ELSE SubSeq(s, Len(s) - Min(n, Len(s)) + 1, Len(s))

-----------------------------------------------------------------------------
(* The intent corpus and the utterances *)

RC(location, location_required, user_profile, purpose, situation, associated) ==
  [location |-> location, location_required |-> location_required,
   user_profile |-> user_profile, purpose |-> purpose,
   situation |-> situation, associated_intents |-> associated]

\* self.intents after load_intents, in corpus order
Catalog ==
  << [id |-> "start_timer", embedding |-> 0,
      required_context |-> RC("kitchen", TRUE, NoneVal, "automation", NoneVal, <<>>)],
     [id |-> "set_alarm", embedding |-> 11,
      required_context |-> RC("bedroom", FALSE, NoneVal, "automation", NoneVal, <<>>)],
     [id |-> "play_music", embedding |-> 1,
      required_context |-> RC(NoneVal, FALSE, NoneVal, NoneVal, "relaxation", <<"music">>)],
     [id |-> "open_account", embedding |-> 2,
      required_context |-> RC(NoneVal, FALSE, "adult", NoneVal, NoneVal, <<>>)],
     [id |-> "river_bank", embedding |-> 3,
      required_context |-> RC("nature", FALSE, NoneVal, NoneVal, NoneVal, <<"fishing">>)],
     [id |-> "financial_bank", embedding |-> 3,
      required_context |-> RC("city", FALSE, NoneVal, NoneVal, NoneVal, <<"money">>)] >>

\* self.intents after load_intents of a corpus that holds one intent
SingleIntentCatalog == SubSeq(Catalog, 1, 1)

IntentIds == {Catalog[i].id : i \in 1..Len(Catalog)}

FallbackId == "__fallback_uncertain__"

\* which of the Hard Stop 1 keywords occur in an intent id
IdKeywords(id) ==
  CASE id = "start_timer" -> {"start"}
    [] id = "open_account" -> {"open"}
    [] OTHER -> {}

Utterances == {"set a timer", "gimme tunes", "take me to the bank", "zzz"}

\* model.encode(text, normalize_embeddings=True): the embedder is external
Embed(u) ==
  CASE u = "set a timer" -> 0
    [] u = "gimme tunes" -> 1
    [] u = "take me to the bank" -> 4
    [] OTHER -> 6

\* NormalizationLayer.normalize_to_pure_form(text)[1]
Distortion(u) == IF u = "gimme tunes" THEN 40 ELSE 0

encode_input(u) == [embedding |-> Embed(u), distortion_score |-> Distortion(u)]

\* get_intent_by_id: index of the first intent with this id, 0 for None
get_intent_by_id(id) ==
  IF \E i \in 1..Len(intents) : intents[i].id = id
  THEN CHOOSE i \in 1..Len(intents) :
         /\ intents[i].id = id
         /\ \A j \in 1..(i - 1) : intents[j].id # id
  ELSE 0

-----------------------------------------------------------------------------
(* Context values a caller can pass: Union[Dict, ContextObject, None] *)

\* The twelve factors, under the attribute names _build_context_object uses.
\* kind "none" is None, "dict" a dictionary with these keys, "object" a
\* ContextObject (its fields are named sahacarya .. apabhramsa, so it has none
\* of the attributes history .. distortion), "extended" a ContextObject
\* instance that also carries the attributes history .. distortion (the
\* dataclass is neither frozen nor slotted).  A list-valued factor that is
\* None or empty is <<>>: the code only tests its truth value.
Context(kind, history, conflict, purpose, situation, location, user_profile) ==
  [kind |-> kind, history |-> history, conflict |-> conflict,
   purpose |-> purpose, situation |-> situation, indicator |-> NoneVal,
   word_power |-> NoneNum, propriety |-> NoneNum, location |-> location,
   time |-> NoneNum, user_profile |-> user_profile, intonation |-> NoneVal,
   distortion |-> NoneNum, apabhramsa |-> NoneNum]

ContextValues(kind) ==
  { Context(kind, <<>>, <<>>, NoneVal, NoneVal, NoneVal, NoneVal),
    Context(kind, <<>>, <<"Cancel">>, NoneVal, NoneVal, NoneVal, NoneVal),
    Context(kind, <<>>, <<>>, NoneVal, NoneVal, "bedroom", NoneVal),
    Context(kind, <<>>, <<>>, "automation", NoneVal, "Kitchen", NoneVal),
    Context(kind, <<>>, <<>>, NoneVal, NoneVal, NoneVal, "child"),
    Context(kind, <<"fishing">>, <<>>, NoneVal, NoneVal, "nature", NoneVal),
    Context(kind, <<"money">>, <<>>, NoneVal, NoneVal, "city", NoneVal),
    Context(kind, <<"music">>, <<>>, NoneVal, "relaxation", NoneVal, "adult") }

NoneContext == Context("none", <<>>, <<>>, NoneVal, NoneVal, NoneVal, NoneVal)

EmptyDict == Context("dict", <<>>, <<>>, NoneVal, NoneVal, NoneVal, NoneVal)

Contexts ==
  {NoneContext}
  \cup {c \in ContextValues("dict") : c.location \in {NoneVal, "bedroom"}}
  \cup {c \in ContextValues("object") : c.location \in {NoneVal, "nature"}}
  \cup ContextValues("extended")

\* The fields of the ContextObject dataclass
ContextObjectFields ==
  {"sahacarya", "virodhita", "artha", "prakarana", "linga", "shabda_samarthya",
   "auciti", "desa", "kala", "vyakti", "svara", "apabhramsa"}

\* The keyword arguments _build_context_object passes to ContextObject(...)
BuildKeywords ==
  {"history", "conflict", "purpose", "situation", "indicator", "word_power",
   "propriety", "location", "time", "user_profile", "intonation", "distortion"}

\* Whether a context value has the attributes history .. distortion
HasBuildAttributes(c) ==
  \/ c.kind = "extended"
  \/ c.kind = "object" /\ BuildKeywords \subseteq ContextObjectFields

-----------------------------------------------------------------------------
(* Fast Memory (in-process backend) *)

MemoryTopK == 5
VectorTopK == 5

\* FastMemory.retrieve_candidates(user_input, embedding, top_k)
retrieve_candidates(embedding, top_k) ==
  IF Len(memories) = 0 THEN <<>>
  ELSE IF embeddings = <<>> THEN <<>>
  ELSE LET candidates(similarities) ==
             LET build(top_indices) ==
                   [j \in 1..Len(top_indices) |->
                      [intent_id |-> memories[top_indices[j]].intent_id,
                       original_text |-> memories[top_indices[j]].document,
                       similarity_score |-> similarities[top_indices[j]]]]
             IN build(Reverse(Last(ArgSort(similarities), Min(top_k, Len(memories)))))
       IN candidates([i \in 1..Len(embeddings) |-> Dot(embeddings[i], embedding)])

\* Whether self.fast_memory.retrieve_candidates(...) raises when Stage 1
\* calls it: the call is made when use_fast_memory is set, and fails when the
\* vector store does not answer
query_raises == use_fast_memory /\ ~store_ok

-----------------------------------------------------------------------------
(* Stage 1: Semantic Flash *)

\* IntentEngine.cosine_similarity
cosine_similarity(vec1, vec2) == Clamp01(Dot(vec1, vec2))

\* Variant that scores no intent while the memory store is empty
calculate_raw_similarities_needing_memory(input_embedding) ==
  IF memories = <<>> THEN <<>>
  ELSE [i \in 1..Len(intents) |->
          [intent_id |-> intents[i].id,
           similarity |-> cosine_similarity(input_embedding, intents[i].embedding)]]

\* IntentEngine._calculate_raw_similarities: the dict's items in insertion order
calculate_raw_similarities(input_embedding) ==
  [i \in 1..Len(intents) |->
     [intent_id |-> intents[i].id,
      similarity |-> cosine_similarity(input_embedding, intents[i].embedding)]]

\* IntentEngine._get_semantic_candidates
get_semantic_candidates(user_input, input_embedding) ==
  LET merge(memory_candidates, sorted_intents) ==
        LET converted(known) ==
              [j \in 1..Len(known) |->
                 [candidate_intent |-> known[j].intent_id,
                  semantic_similarity |-> known[j].similarity_score,
                  source |-> "memory_boost"]]
            searched(fresh) ==
              [j \in 1..Len(fresh) |->
                 [candidate_intent |-> fresh[j].intent_id,
                  semantic_similarity |-> fresh[j].similarity,
                  source |-> "vector_search"]]
            candidates(from_memory) ==
              from_memory \o
              searched(SelectSeq(Take(sorted_intents, VectorTopK),
                                 LAMBDA x : x.intent_id \notin
                                   {from_memory[j].candidate_intent :
                                      j \in 1..Len(from_memory)}))
        IN SortedReverse(
             candidates(converted(SelectSeq(memory_candidates,
                                            LAMBDA m : get_intent_by_id(m.intent_id) # 0))),
             "semantic_similarity")
  IN merge(IF use_fast_memory
           THEN retrieve_candidates(input_embedding, MemoryTopK)
           ELSE <<>>,
           SortedReverse(calculate_raw_similarities(input_embedding), "similarity"))

-----------------------------------------------------------------------------
(* Stage 2: Deterministic Check *)

\* ContextResolutionMatrix.weights
Weights ==
  [sahacarya |-> 15, virodhita |-> 10, artha |-> 20, prakarana |-> 15,
   linga |-> 8, shabda_samarthya |-> 12, auciti |-> 10, desa |-> 18,
   kala |-> 15, vyakti |-> 12, svara |-> 8, apabhramsa |-> 7]

\* ContextResolutionEngine.DEFAULT_WEIGHTS
DEFAULT_WEIGHTS ==
  [association_history |-> 15, conflict_markers |-> 10, goal_alignment |-> 20,
   situation_context |-> 15, linguistic_indicators |-> 8, semantic_capacity |-> 12,
   social_propriety |-> 10, location_context |-> 18, temporal_context |-> 15,
   user_profile |-> 12, prosodic_features |-> 8, input_fidelity |-> 7]

\* self.crm.weights.get(key, default)
WeightsGet(key, default) ==
  IF key \in DOMAIN Weights THEN Weights[key] ELSE default

\* ContextResolutionMatrix.get_active_factors: reads the dataclass fields,
\* which an "object" or "extended" context holds under the names sahacarya ..
FactorOrder ==
  <<"sahacarya", "virodhita", "artha", "prakarana", "linga", "shabda_samarthya",
    "auciti", "desa", "kala", "vyakti", "svara", "apabhramsa">>

\* Variant that reads the distortion under the attribute name Stage 2 writes
FactorIsActiveByAttribute(c, f) ==
  CASE f = "sahacarya" -> c.history # <<>>
    [] f = "virodhita" -> c.conflict # <<>>
    [] f = "artha" -> c.purpose # NoneVal
    [] f = "prakarana" -> c.situation # NoneVal
    [] f = "linga" -> c.indicator # NoneVal
    [] f = "shabda_samarthya" -> c.word_power # NoneNum
    [] f = "auciti" -> c.propriety # NoneNum
    [] f = "desa" -> c.location # NoneVal
    [] f = "kala" -> c.time # NoneNum
    [] f = "vyakti" -> c.user_profile # NoneVal
    [] f = "svara" -> c.intonation # NoneVal
    [] OTHER -> c.distortion # NoneNum

FactorIsActive(c, f) ==
  CASE f = "sahacarya" -> c.history # <<>>
    [] f = "virodhita" -> c.conflict # <<>>
    [] f = "artha" -> c.purpose # NoneVal
    [] f = "prakarana" -> c.situation # NoneVal
    [] f = "linga" -> c.indicator # NoneVal
    [] f = "shabda_samarthya" -> c.word_power # NoneNum
    [] f = "auciti" -> c.propriety # NoneNum
    [] f = "desa" -> c.location # NoneVal
    [] f = "kala" -> c.time # NoneNum
    [] f = "vyakti" -> c.user_profile # NoneVal
    [] f = "svara" -> c.intonation # NoneVal
    [] OTHER -> c.apabhramsa # NoneNum

get_active_factors(c) == SelectSeq(FactorOrder, LAMBDA f : FactorIsActive(c, f))

\* IntentEngine._build_context_object: [error, context]; context is the
\* object Stage 2 reads, which for a ContextObject is the caller's own object
build_context_object(current_context, distortion_score) ==
  IF current_context.kind \in {"object", "extended"}
  THEN IF distortion_score > 0
       THEN IF ~HasBuildAttributes(current_context)
            THEN [error |-> "AttributeError", context |-> current_context]
            ELSE IF current_context.distortion = NoneNum
                 THEN [error |-> "",
                       context |-> [current_context EXCEPT !.distortion = distortion_score]]
                 ELSE [error |-> "", context |-> current_context]
       ELSE [error |-> "", context |-> current_context]
  ELSE IF BuildKeywords \subseteq ContextObjectFields
       THEN [error |-> "",
             context |-> [current_context EXCEPT
                            !.kind = "object",
                            !.time = IF current_context.time # NoneNum
                                     THEN current_context.time ELSE now,
                            !.distortion = IF distortion_score > 0
                                           THEN distortion_score ELSE NoneNum]]
       ELSE [error |-> "TypeError", context |-> current_context]

HardStopMarkers == {"cancel", "stop", "close", "no"}

HardStopKeywords == {"create", "start", "begin", "open"}

\* Hard Stop 1: conflict check
HardStopConflict(intent, c) ==
  /\ c.conflict # <<>>
  /\ \E i \in 1..Len(c.conflict) :
       /\ Lower(c.conflict[i]) \in HardStopMarkers
       /\ IdKeywords(intent.id) \cap HardStopKeywords # {}

\* Variant of a hard stop that never fires
NoHardStop(intent, c) == FALSE

\* Hard Stop 2: location mismatch
HardStopLocation(intent, c) ==
  /\ intent.required_context.location # NoneVal
  /\ c.location # NoneVal
  /\ Lower(c.location) # Lower(intent.required_context.location)
  /\ intent.required_context.location_required

\* Hard Stop 3: user profile incompatibility
HardStopProfile(intent, c) ==
  /\ intent.required_context.user_profile # NoneVal
  /\ c.user_profile # NoneVal
  /\ c.user_profile # intent.required_context.user_profile

Discard(intent, c) ==
  HardStopConflict(intent, c) \/ HardStopLocation(intent, c) \/ HardStopProfile(intent, c)

\* Context boosts 1-4, then the clamp to [0, 1]
BoostedScore(intent, base_score, c) ==
  LET rc == intent.required_context
      purpose == IF c.purpose # NoneVal /\ rc.purpose = c.purpose
                 THEN WeightsGet("purpose", 20) ELSE 0
      situation == IF c.situation # NoneVal /\ rc.situation = c.situation
                   THEN WeightsGet("situation", 15) ELSE 0
      location == IF c.location # NoneVal /\ rc.location = c.location
                  THEN (WeightsGet("location", 18) * 5) \div 10 ELSE 0
      history == IF /\ c.history # <<>>
                    /\ rc.associated_intents # <<>>
                    /\ \E i \in 1..Len(c.history) : \E j \in 1..Len(rc.associated_intents) :
                         c.history[i] = rc.associated_intents[j]
                 THEN WeightsGet("history", 15) ELSE 0
  IN Clamp01(base_score + purpose + situation + location + history)

\* Variant of the selection: the last of the maxima
LastMax(validated) ==
  CHOOSE i \in 1..Len(validated) :
    /\ \A j \in 1..Len(validated) : validated[j].score <= validated[i].score
    /\ \A j \in (i + 1)..Len(validated) : validated[j].score < validated[i].score

\* max(validated_candidates, key=lambda x: x[1]): the first of the maxima
FirstMax(validated) ==
  CHOOSE i \in 1..Len(validated) :
    /\ \A j \in 1..Len(validated) : validated[j].score <= validated[i].score
    /\ \A j \in 1..(i - 1) : validated[j].score < validated[i].score

NoVerified ==
  [intent |-> NoneVal, semantic_candidates |-> <<>>, stage_1_passed |-> FALSE,
   stage_2_passed |-> FALSE, fallback_used |-> FALSE, confidence |-> 0,
   context_adjusted_score |-> 0, active_factors |-> <<>>]

\* IntentEngine._apply_deterministic_check: [error, verified, stage_2_passed,
\* context]; verified = NoVerified stands for None
apply_deterministic_check(semantic_candidates, current_context, distortion_score) ==
  LET failed(error) ==
        [error |-> error, verified |-> NoVerified, stage_2_passed |-> FALSE,
         context |-> current_context]
      Intent(c) == intents[get_intent_by_id(c.candidate_intent)]
      validate(context_obj) ==
        LET scored(kept) ==
              [j \in 1..Len(kept) |->
                 [candidate |-> kept[j],
                  score |-> BoostedScore(Intent(kept[j]), kept[j].semantic_similarity,
                                         context_obj)]]
            returned_context ==
              IF current_context.kind \in {"object", "extended"}
              THEN context_obj ELSE current_context
            verify(best) ==
              [error |-> "",
               verified |->
                 [intent |-> best.candidate.candidate_intent,
                  semantic_candidates |-> semantic_candidates,
                  stage_1_passed |-> TRUE, stage_2_passed |-> TRUE,
                  fallback_used |-> FALSE, confidence |-> best.score,
                  context_adjusted_score |-> best.score,
                  active_factors |-> get_active_factors(context_obj)],
               stage_2_passed |-> TRUE,
               context |-> returned_context]
            select(validated_candidates) ==
              IF validated_candidates = <<>>
              THEN [error |-> "", verified |-> NoVerified, stage_2_passed |-> FALSE,
                    context |-> returned_context]
              ELSE verify(validated_candidates[FirstMax(validated_candidates)])
        IN select(scored(SelectSeq(semantic_candidates,
                                   LAMBDA c : ~Discard(Intent(c), context_obj))))
      check(built) ==
        IF built.error # "" THEN failed(built.error)
        ELSE IF ~HasBuildAttributes(built.context) THEN failed("AttributeError")
        ELSE validate(built.context)
  IN IF semantic_candidates = <<>>
     THEN failed("")
     ELSE check(build_context_object(current_context, distortion_score))

\* Variant of the threshold: no result is below it
NoThreshold == 60 - 60

FallbackThreshold == 60

\* Variant of the fallback result that does not set the flag
unflagged_fallback_intent(reason, confidence, stage_1_passed) ==
  [intent |-> FallbackId, semantic_candidates |-> <<>>,
   stage_1_passed |-> stage_1_passed, stage_2_passed |-> FALSE,
   fallback_used |-> FALSE, confidence |-> confidence,
   context_adjusted_score |-> confidence, active_factors |-> <<reason>>]

\* Variant that reports low_confidence whatever the reason it is given
low_confidence_fallback_intent(reason, confidence, stage_1_passed) ==
  [intent |-> FallbackId, semantic_candidates |-> <<>>,
   stage_1_passed |-> stage_1_passed, stage_2_passed |-> FALSE,
   fallback_used |-> TRUE, confidence |-> confidence,
   context_adjusted_score |-> confidence, active_factors |-> <<"low_confidence">>]

\* IntentEngine._create_fallback_intent
create_fallback_intent(reason, confidence, stage_1_passed) ==
  [intent |-> FallbackId, semantic_candidates |-> <<>>,
   stage_1_passed |-> stage_1_passed, stage_2_passed |-> FALSE,
   fallback_used |-> TRUE, confidence |-> confidence,
   context_adjusted_score |-> confidence, active_factors |-> <<reason>>]

\* IntentEngine.resolve_with_hybrid_logic: [error, value, context].  Stage 1
\* is called outside any try block: what the store's query raises reaches
\* the caller before Stage 2 has run.
resolve_with_hybrid_logic(user_input, current_context) ==
  IF query_raises
  THEN [error |-> "BackendError", value |-> NoVerified, context |-> current_context]
  ELSE
  LET given == IF current_context.kind = "none" THEN EmptyDict ELSE current_context
      conclude(semantic_candidates, checked) ==
        LET returned_context == IF current_context.kind = "none"
                                THEN current_context ELSE checked.context
        IN IF checked.error # ""
           THEN [error |-> checked.error, value |-> NoVerified,
                 context |-> returned_context]
           ELSE IF \/ ~checked.stage_2_passed
                   \/ checked.verified = NoVerified
                   \/ checked.verified.confidence < FallbackThreshold
           THEN [error |-> "",
                 value |-> create_fallback_intent(
                             IF /\ checked.verified # NoVerified
                                /\ checked.verified.confidence < FallbackThreshold
                             THEN "low_confidence" ELSE "stage_2_failed",
                             IF checked.verified # NoVerified
                             THEN checked.verified.confidence ELSE 0,
                             semantic_candidates # <<>>),
                 context |-> returned_context]
           ELSE [error |-> "", value |-> checked.verified, context |-> returned_context]
      decide(enc, semantic_candidates) ==
        IF semantic_candidates = <<>>
        THEN [error |-> "",
              value |-> create_fallback_intent("no_semantic_candidates", 0, FALSE),
              context |-> current_context]
        ELSE conclude(semantic_candidates,
                      apply_deterministic_check(semantic_candidates, given,
                                                enc.distortion_score))
      encoded(enc) == decide(enc, get_semantic_candidates(user_input, enc.embedding))
  IN encoded(encode_input(user_input))

-----------------------------------------------------------------------------
(* Fast Memory writes *)

\* FastMemory.add_memory: [error, memories, embeddings].  The id string
\* (intent id and millisecond clock) is not kept: nothing reads it.  The
\* exemplar is appended before np.vstack stacks its row, so a row that does
\* not fit the matrix raises after the append.
add_memory(user_input, resolved_intent_id, embedding, metadata) ==
  LET memory == [document |-> user_input, intent_id |-> resolved_intent_id,
                 metadata |-> metadata]
  IN IF embedding = NoEmbedding
     THEN [error |-> "ValueError", memories |-> memories, embeddings |-> embeddings]
     ELSE IF embedding = WrongShape /\ embeddings # <<>>
          THEN [error |-> "ValueError", memories |-> Append(memories, memory),
                embeddings |-> embeddings]
          ELSE [error |-> "", memories |-> Append(memories, memory),
                embeddings |-> Append(embeddings, embedding)]

\* FastMemory.get_memory_count
get_memory_count == Len(memories)

-----------------------------------------------------------------------------
(* Resolution calls *)

NoResolved ==
  [intent |-> NoneVal, raw_similarity |-> 0, context_adjusted_score |-> 0,
   active_factors |-> <<>>, confidence |-> 0]

NoRes ==
  [op |-> "none", status |-> "none", error |-> "", user_input |-> NoneVal,
   value |-> NoVerified, resolved |-> NoResolved, store_in_memory |-> FALSE]

NoStats ==
  [total_feedbacks |-> 0, correct_feedbacks |-> 0, incorrect_feedbacks |-> 0,
   accuracy |-> 0, last_update |-> NoneNum]

NoBefore == [memory_count |-> 0, stats |-> NoStats, review_file |-> <<>>]

NoAck ==
  [op |-> "none",
   status |-> "none", error |-> "", was_correct |-> FALSE, encoded |-> FALSE,
   write_failed |-> FALSE,
   action_taken |-> NoneVal, has_memory_id |-> FALSE, review_queue_id |-> 0,
   learning_status |-> NoStats, before |-> NoBefore]

\* No snapshot file {collection_name}.pkl
NoFile == [exists |-> FALSE, memories |-> <<>>, embeddings |-> <<>>]

\* A worker process that has just started on empty files
NoPeer == [stats |-> NoStats, memories |-> <<>>, embeddings |-> <<>>]

NoFound ==
  [op |-> "none", error |-> "", user_input |-> NoneVal, embedding |-> NoEmbedding,
   top_k |-> 0, result |-> <<>>]

\* The worker processes that share the files
Workers == {1, 2}

\* A worker that is not inside a review-queue call
NoCall ==
  [pc |-> "idle", review_id |-> 0, original_input |-> NoneVal,
   corrected_intent |-> NoneVal, items |-> <<>>]

\* A caller builds a new context value
NewContext ==
  /\ ctx' \in Contexts \ {ctx}
  /\ res' = NoRes
  /\ ack' = NoAck
  /\ UNCHANGED <<collection, vector_found, crm, context_engine, called, calls, intents, use_fast_memory, store_ok, memory_file, peer, submissions, found, memories, embeddings, now, stats, stats_file, review_file>>

\* Time passes
Tick ==
  /\ now < MaxClock
  /\ now' = now + 1
  /\ UNCHANGED <<collection, vector_found, crm, context_engine, called, calls, intents, use_fast_memory, store_ok, memory_file, peer, submissions, found, memories, embeddings, ctx, res, stats, stats_file,
                 review_file, ack>>

\* A call of resolve_with_hybrid_logic(user_input, ctx)
Resolve ==
  \E user_input \in Utterances :
    LET call(r) ==
          /\ res' = [op |-> "resolve",
                     status |-> IF r.error = "" THEN "returned" ELSE "raised",
                     error |-> r.error, user_input |-> user_input,
                     value |-> r.value, resolved |-> NoResolved,
                     store_in_memory |-> FALSE]
          /\ ctx' = r.context
    IN /\ call(resolve_with_hybrid_logic(user_input, ctx))
       /\ ack' = NoAck
       /\ UNCHANGED <<collection, vector_found, crm, context_engine, called, calls, intents, use_fast_memory, store_ok, memory_file, peer, submissions, found, memories, embeddings, now, stats, stats_file,
                      review_file>>

\* Variant that writes every returned result back, fallbacks included
stores_every_result(r, store_in_memory) ==
  /\ r.error = ""
  /\ store_in_memory
  /\ use_fast_memory

\* The write-back condition of resolve_intent, r being what
\* resolve_with_hybrid_logic gave
stores_exemplar(r, store_in_memory) ==
  /\ r.error = ""
  /\ store_in_memory
  /\ ~r.value.fallback_used
  /\ use_fast_memory

\* A call of resolve_intent(user_input, ctx, store_in_memory=store)
ResolveIntent ==
  \E user_input \in Utterances, store_in_memory \in BOOLEAN :
    LET call(r) ==
          LET resolved == [intent |-> r.value.intent, raw_similarity |-> 0,
                           context_adjusted_score |-> r.value.context_adjusted_score,
                           active_factors |-> r.value.active_factors,
                           confidence |-> r.value.confidence]
              stores == stores_exemplar(r, store_in_memory)
              added == add_memory(user_input, resolved.intent,
                                  encode_input(user_input).embedding,
                                  [feedback_type |-> NoneVal,
                                   confidence |-> resolved.confidence,
                                   feedback_timestamp |-> NoneNum])
          IN /\ stores => Len(memories) < MaxMem
             /\ res' = [op |-> "resolve_intent",
                        status |-> IF r.error = "" THEN "returned" ELSE "raised",
                        error |-> r.error, user_input |-> user_input,
                        value |-> NoVerified,
                        resolved |-> IF r.error = "" THEN resolved ELSE NoResolved,
                        store_in_memory |-> store_in_memory]
             /\ ctx' = r.context
             /\ memories' = IF stores THEN added.memories ELSE memories
             /\ embeddings' = IF stores THEN added.embeddings ELSE embeddings
    IN /\ call(resolve_with_hybrid_logic(user_input, ctx))
       /\ ack' = NoAck
       /\ UNCHANGED <<collection, vector_found, crm, context_engine, called, calls, intents, use_fast_memory, store_ok, memory_file, peer, submissions, found, now, stats, stats_file, review_file>>

\* IntentEngine.clear_fast_memory / FastMemory.clear_memory
ClearMemory ==
  /\ use_fast_memory
  /\ memories # <<>>
  /\ memories' = <<>>
  /\ embeddings' = <<>>
  /\ res' = NoRes
  /\ ack' = NoAck
  /\ found' = NoFound
  /\ UNCHANGED <<collection, vector_found, crm, context_engine, called, calls, intents, use_fast_memory, store_ok, memory_file, peer, submissions,
                 ctx, now, stats, stats_file, review_file>>

\* The vector store stops answering queries
StoreFails ==
  /\ use_fast_memory
  /\ store_ok
  /\ store_ok' = FALSE
  /\ res' = NoRes
  /\ ack' = NoAck
  /\ UNCHANGED <<collection, vector_found, crm, context_engine, called, calls, intents, use_fast_memory, memory_file, peer, submissions, found,
                 memories, embeddings, ctx, now, stats, stats_file, review_file>>

\* The vector store answers again
StoreRecovers ==
  /\ ~store_ok
  /\ store_ok' = TRUE
  /\ res' = NoRes
  /\ ack' = NoAck
  /\ UNCHANGED <<collection, vector_found, crm, context_engine, called, calls, intents, use_fast_memory, memory_file, peer, submissions, found,
                 memories, embeddings, ctx, now, stats, stats_file, review_file>>

-----------------------------------------------------------------------------
(* Feedback loop *)

\* datetime.utcnow().isoformat() prints a fraction unless the microsecond is 0
HasFraction(timestamp) == timestamp % 2 = 1

\* round(correct / total * 100, 1), in tenths of a percent
compute_accuracy(st) ==
  IF st.total_feedbacks > 0
  THEN LET n == 1000 * st.correct_feedbacks
           t == st.total_feedbacks
           q == n \div t
           r2 == 2 * (n % t)
       IN [st EXCEPT !.accuracy =
             IF r2 > t \/ (r2 = t /\ q % 2 = 1) THEN q + 1 ELSE q]
  ELSE st

\* FeedbackManager._save_to_fast_memory: [error, action, has_memory_id,
\* write_failed, memories, embeddings]
save_to_fast_memory(original_input, intent_id, embedding, confidence, timestamp) ==
  IF HasFraction(timestamp)
  THEN [error |-> "ValueError", action |-> NoneVal, has_memory_id |-> FALSE,
        write_failed |-> FALSE, memories |-> memories, embeddings |-> embeddings]
  ELSE IF use_fast_memory
       THEN LET added == add_memory(original_input, intent_id, embedding,
                                    [feedback_type |-> "golden_record",
                                     confidence |-> confidence,
                                     feedback_timestamp |-> timestamp])
            IN IF added.error = ""
               THEN [error |-> "", action |-> "saved_to_memory", has_memory_id |-> TRUE,
                     write_failed |-> FALSE,
                     memories |-> added.memories, embeddings |-> added.embeddings]
               ELSE [error |-> "", action |-> "save_failed", has_memory_id |-> FALSE,
                     write_failed |-> TRUE,
                     memories |-> added.memories, embeddings |-> added.embeddings]
       ELSE [error |-> "", action |-> "saved_to_memory", has_memory_id |-> TRUE,
             write_failed |-> FALSE, memories |-> memories, embeddings |-> embeddings]

\* FeedbackManager._load_review_queue
load_review_queue == review_file

\* Variant that opens the queue file for writing instead of appending
queue_for_review_overwriting(original_input, resolved_intent, correct_intent, confidence, timestamp) ==
  [action |-> "queued_for_review", review_queue_id |-> Len(review_file) + 1,
   review_file |-> << [id |-> Len(review_file) + 1, original_input |-> original_input,
                       resolved_intent |-> resolved_intent,
                       correct_intent |-> IF correct_intent = NoneVal
                                          THEN "UNKNOWN" ELSE correct_intent,
                       confidence |-> confidence, timestamp |-> timestamp,
                       status |-> "pending"] >>]

\* FeedbackManager._queue_for_review: [action, review_queue_id, review_file]
queue_for_review(original_input, resolved_intent, correct_intent, confidence, timestamp) ==
  LET review_id == Len(load_review_queue) + 1
  IN [action |-> "queued_for_review", review_queue_id |-> review_id,
      review_file |-> Append(review_file,
                             [id |-> review_id, original_input |-> original_input,
                              resolved_intent |-> resolved_intent,
                              correct_intent |-> IF correct_intent = NoneVal
                                                 THEN "UNKNOWN" ELSE correct_intent,
                              confidence |-> confidence, timestamp |-> timestamp,
                              status |-> "pending"])]

\* The review_record dict of _queue_for_review
review_record(review_id, original_input, resolved_intent, correct_intent, confidence, timestamp) ==
  [id |-> review_id, original_input |-> original_input,
   resolved_intent |-> resolved_intent,
   correct_intent |-> IF correct_intent = NoneVal THEN "UNKNOWN" ELSE correct_intent,
   confidence |-> confidence, timestamp |-> timestamp, status |-> "pending"]

\* Position of the first item with the id, 0 when there is none
first_with_id(items, review_id) ==
  IF \E i \in 1..Len(items) : items[i].id = review_id
  THEN CHOOSE i \in 1..Len(items) :
         /\ items[i].id = review_id
         /\ \A j \in 1..(i - 1) : items[j].id # review_id
  ELSE 0

\* The item as mark_reviewed leaves it: status "resolved" and the key
\* corrected_intent set
resolved_item(item, corrected_intent) ==
  [k \in DOMAIN item \cup {"corrected_intent"} |->
     IF k = "status" THEN "resolved"
     ELSE IF k = "corrected_intent" THEN corrected_intent
     ELSE item[k]]

\* FeedbackManager.mark_reviewed: the lines it writes from the items loaded
mark_reviewed(items, review_id, corrected_intent) ==
  LET at == first_with_id(items, review_id)
  IN [i \in 1..Len(items) |->
        IF i = at THEN resolved_item(items[i], corrected_intent) ELSE items[i]]

\* FeedbackManager.process_feedback: [error, ack fields, the stores after it]
process_feedback(original_input, resolved_intent, was_correct, embedding, confidence, correct_intent) ==
  LET timestamp == now
      before == [memory_count |-> get_memory_count, stats |-> stats,
                 review_file |-> review_file]
      saved == save_to_fast_memory(original_input, resolved_intent, embedding,
                                   confidence, timestamp)
      queued == queue_for_review(original_input, resolved_intent, correct_intent,
                                 confidence, timestamp)
      counted == IF was_correct
                 THEN [stats EXCEPT !.correct_feedbacks = @ + 1]
                 ELSE [stats EXCEPT !.incorrect_feedbacks = @ + 1]
      updated == compute_accuracy([counted EXCEPT !.total_feedbacks = @ + 1,
                                                  !.last_update = timestamp])
  IN IF was_correct /\ saved.error # ""
     THEN [ack |-> [NoAck EXCEPT !.op = "process_feedback",
                                 !.status = "raised", !.error = saved.error,
                                 !.was_correct = was_correct,
                                 !.encoded = embedding # NoEmbedding,
                                 !.before = before],
           stats |-> stats, stats_file |-> stats_file, review_file |-> review_file,
           memories |-> memories, embeddings |-> embeddings]
     ELSE [ack |-> [op |-> "process_feedback",
                    status |-> "returned", error |-> "", was_correct |-> was_correct,
                    encoded |-> embedding # NoEmbedding,
                    write_failed |-> was_correct /\ saved.write_failed,
                    action_taken |-> IF was_correct THEN saved.action ELSE queued.action,
                    has_memory_id |-> was_correct /\ saved.has_memory_id,
                    review_queue_id |-> IF was_correct THEN 0 ELSE queued.review_queue_id,
                    learning_status |-> updated, before |-> before],
           stats |-> updated,
           stats_file |-> [exists |-> TRUE, data |-> updated],
           review_file |-> IF was_correct THEN review_file ELSE queued.review_file,
           memories |-> IF was_correct THEN saved.memories ELSE memories,
           embeddings |-> IF was_correct THEN saved.embeddings ELSE embeddings]

FeedbackInputs == {"set a timer", "zzz"}

FeedbackIntents == {"start_timer", "play_music", "unknown_intent"}

\* A call of process_feedback, as made by the /feedback endpoint: the
\* embedding is the encoded input, or None when encoding was not possible
ProcessFeedback ==
  \E original_input \in FeedbackInputs, resolved_intent \in FeedbackIntents,
     was_correct \in BOOLEAN, encoded \in BOOLEAN :
    LET embedding == IF was_correct /\ encoded THEN Embed(original_input) ELSE NoEmbedding
        out == process_feedback(original_input, resolved_intent, was_correct,
                                embedding, 90, NoneVal)
    IN /\ submissions < MaxFeedback
       /\ Len(out.memories) <= MaxMem
       /\ ack' = out.ack
       /\ stats' = out.stats
       /\ stats_file' = out.stats_file
       /\ review_file' = out.review_file
       /\ memories' = out.memories
       /\ embeddings' = out.embeddings
       /\ submissions' = IF out.ack.status = "returned"
                         THEN submissions + 1 ELSE submissions
       /\ res' = NoRes
       /\ UNCHANGED <<collection, vector_found, crm, context_engine, called, calls, intents, use_fast_memory, store_ok, memory_file, peer, found, ctx, now>>

\* POST /feedback as submit_reinforcement_feedback serves it: the counters
\* are incremented and saved, the accuracy is not recomputed, and neither
\* Fast Memory nor the review queue is written
SubmitReinforcementFeedback ==
  \E was_successful \in BOOLEAN :
    LET timestamp == now
        before == [memory_count |-> get_memory_count, stats |-> stats,
                   review_file |-> review_file]
        counted == IF was_successful
                   THEN [stats EXCEPT !.correct_feedbacks = @ + 1]
                   ELSE [stats EXCEPT !.incorrect_feedbacks = @ + 1]
        updated == [counted EXCEPT !.total_feedbacks = @ + 1,
                                   !.last_update = timestamp]
    IN /\ submissions < MaxFeedback
       /\ stats' = updated
       /\ stats_file' = [exists |-> TRUE, data |-> updated]
       /\ ack' = [NoAck EXCEPT !.op = "submit_reinforcement_feedback",
                              !.status = "returned",
                              !.was_correct = was_successful,
                              !.action_taken = IF was_successful
                                               THEN "logged_for_learning"
                                               ELSE "queued_for_review",
                              !.learning_status = updated,
                              !.before = before]
       /\ submissions' = submissions + 1
       /\ res' = NoRes
       /\ UNCHANGED <<collection, vector_found, crm, context_engine, called, calls, intents, use_fast_memory, store_ok, memory_file, peer, found,
                      memories, embeddings, review_file, ctx, now>>

-----------------------------------------------------------------------------
(* Direct calls on the Fast Memory store and on Stage 1 *)

StoredInputs == {"gimme tunes"}

StoredIntents == {"play_music", "financial_bank", "unknown_intent"}

StoredEmbeddings == {1, 3}

QueryEmbeddings == {0, 3}

TopKs == {0, 1, 2, 5}

\* A call of FastMemory.add_memory(user_input, resolved_intent_id, embedding):
\* the embedding may be missing, or an array that does not fit the rows
\* the store already holds
AddMemory ==
  \E user_input \in StoredInputs, resolved_intent_id \in StoredIntents,
     embedding \in StoredEmbeddings \cup {NoEmbedding}
                  \cup (IF embeddings # <<>> THEN {WrongShape} ELSE {}) :
    LET added == add_memory(user_input, resolved_intent_id, embedding,
                            [feedback_type |-> NoneVal, confidence |-> NoneNum,
                             feedback_timestamp |-> NoneNum])
    IN /\ use_fast_memory
       /\ Len(memories) < MaxStore
       /\ memories' = added.memories
       /\ embeddings' = added.embeddings
       /\ found' = [NoFound EXCEPT !.op = "add_memory", !.error = added.error,
                                  !.embedding = embedding]
       /\ UNCHANGED <<collection, vector_found, crm, context_engine, called, calls, intents, use_fast_memory, store_ok, memory_file, peer,
                      submissions, ctx, now, res, stats, stats_file, review_file, ack>>

\* A call of FastMemory.retrieve_candidates(user_input, embedding, top_k)
RetrieveCandidates ==
  \E embedding \in QueryEmbeddings, top_k \in TopKs :
    /\ use_fast_memory
    /\ found' = [NoFound EXCEPT !.op = "retrieve_candidates",
                               !.embedding = embedding, !.top_k = top_k,
                               !.result = retrieve_candidates(embedding, top_k)]
    /\ UNCHANGED <<collection, vector_found, crm, context_engine, called, calls, intents, use_fast_memory, store_ok, memory_file, peer, submissions,
                   memories, embeddings, ctx, now, res, stats, stats_file,
                   review_file, ack>>

\* A call of IntentEngine._get_semantic_candidates on an encoded utterance
GetSemanticCandidates ==
  \E user_input \in Utterances :
    /\ found' = [NoFound EXCEPT
                   !.op = "get_semantic_candidates",
                   !.error = IF query_raises THEN "BackendError" ELSE "",
                   !.user_input = user_input,
                   !.embedding = encode_input(user_input).embedding,
                   !.result = IF query_raises THEN <<>>
                              ELSE get_semantic_candidates(
                                     user_input, encode_input(user_input).embedding)]
    /\ UNCHANGED <<collection, vector_found, crm, context_engine, called, calls, intents, use_fast_memory, store_ok, memory_file, peer, submissions,
                   memories, embeddings, ctx, now, res, stats, stats_file,
                   review_file, ack>>

-----------------------------------------------------------------------------
(* Persistence *)

\* FastMemory._load_from_disk, as FastMemory.__init__ runs it
load_from_disk ==
  IF memory_file.exists
  THEN [memories |-> memory_file.memories, embeddings |-> memory_file.embeddings]
  ELSE [memories |-> <<>>, embeddings |-> <<>>]

\* Variant that starts from fresh statistics whatever the file holds
load_fresh_stats == NoStats

\* FeedbackManager._load_stats
load_stats == IF stats_file.exists THEN stats_file.data ELSE NoStats

\* FastMemory.save_to_disk: no operation of the engine or of the feedback
\* manager calls it, a holder of the store can
SaveToDisk ==
  /\ use_fast_memory
  /\ memory_file' = [exists |-> TRUE, memories |-> memories, embeddings |-> embeddings]
  /\ res' = NoRes
  /\ ack' = NoAck
  /\ UNCHANGED <<collection, vector_found, crm, context_engine, called, calls, intents, use_fast_memory, store_ok, peer, submissions, found,
                 memories, embeddings, ctx, now, stats, stats_file, review_file>>

\* The process stops between two operations and starts again: the engine
\* builds a new FastMemory, the lifespan handler a new FeedbackManager
Restart ==
  /\ memories' = IF use_fast_memory THEN load_from_disk.memories ELSE <<>>
  /\ embeddings' = IF use_fast_memory THEN load_from_disk.embeddings ELSE <<>>
  /\ stats' = load_stats
  /\ res' = NoRes
  /\ ack' = [NoAck EXCEPT !.op = "restart", !.status = "returned",
                         !.before = [memory_count |-> get_memory_count,
                                     stats |-> stats, review_file |-> review_file]]
  /\ UNCHANGED <<collection, vector_found, crm, context_engine, called, calls, intents, use_fast_memory, store_ok, memory_file, peer, submissions,
                 found, ctx, now, stats_file, review_file>>

-----------------------------------------------------------------------------
(* Worker processes: uvicorn main:app --workers N *)

\* The next request is served by the other worker process.  Each worker
\* built its own IntentEngine and FeedbackManager at startup; the files
\* feedback_stats.json and review_queue.jsonl are shared.
SwitchWorker ==
  /\ peer' = [stats |-> stats, memories |-> memories, embeddings |-> embeddings]
  /\ stats' = peer.stats
  /\ memories' = peer.memories
  /\ embeddings' = peer.embeddings
  /\ res' = NoRes
  /\ ack' = NoAck
  /\ UNCHANGED <<collection, vector_found, crm, context_engine, called, calls, intents, use_fast_memory, store_ok, memory_file, submissions, found,
                 ctx, now, stats_file, review_file>>

-----------------------------------------------------------------------------
(* The review queue file, read and written by several workers *)

\* FeedbackManager._queue_for_review, up to the id it computes from the
\* lines it has just loaded; submissions counts the calls begun here
QueueForReviewLoad ==
  \E p \in Workers, original_input \in {"set a timer"} :
    /\ calls[p].pc = "idle"
    /\ submissions < MaxFeedback
    /\ calls' = [calls EXCEPT ![p] =
                   [NoCall EXCEPT !.pc = "queue_for_review",
                                  !.review_id = Len(load_review_queue) + 1,
                                  !.original_input = original_input]]
    /\ submissions' = submissions + 1
    /\ UNCHANGED <<collection, vector_found, crm, context_engine, called, intents, use_fast_memory, store_ok, memories, embeddings, ctx, now,
                   res, stats, stats_file, review_file, ack, memory_file, peer, found>>

\* The rest of the negative branch of process_feedback: the record is
\* appended under the id computed before, then the worker's counters are
\* updated and saved
QueueForReviewAppend ==
  \E p \in Workers :
    LET call == calls[p]
        mine == IF p = 1 THEN stats ELSE peer.stats
        updated == compute_accuracy([mine EXCEPT !.incorrect_feedbacks = @ + 1,
                                                 !.total_feedbacks = @ + 1,
                                                 !.last_update = now])
    IN /\ call.pc = "queue_for_review"
       /\ review_file' = Append(review_file,
                                review_record(call.review_id, call.original_input,
                                              "play_music", NoneVal, 90, now))
       /\ stats' = IF p = 1 THEN updated ELSE stats
       /\ peer' = IF p = 1 THEN peer ELSE [peer EXCEPT !.stats = updated]
       /\ stats_file' = [exists |-> TRUE, data |-> updated]
       /\ calls' = [calls EXCEPT ![p] = NoCall]
       /\ UNCHANGED <<collection, vector_found, crm, context_engine, called, intents, use_fast_memory, store_ok, memories, embeddings, ctx, now,
                      res, ack, memory_file, submissions, found>>

ReviewIds == 1 .. (MaxFeedback + 1)

CorrectedIntents == {"start_timer"}

\* FeedbackManager.mark_reviewed, up to the items it has loaded
MarkReviewedLoad ==
  \E p \in Workers, review_id \in ReviewIds, corrected_intent \in CorrectedIntents :
    /\ calls[p].pc = "idle"
    /\ calls' = [calls EXCEPT ![p] =
                   [NoCall EXCEPT !.pc = "mark_reviewed",
                                  !.review_id = review_id,
                                  !.corrected_intent = corrected_intent,
                                  !.items = load_review_queue]]
    /\ UNCHANGED <<collection, vector_found, crm, context_engine, called, intents, use_fast_memory, store_ok, memories, embeddings, ctx, now,
                   res, stats, stats_file, review_file, ack, memory_file, peer,
                   submissions, found>>

\* The rest of mark_reviewed: the first loaded item with the id is marked
\* and the file is rewritten from the loaded items
MarkReviewedRewrite ==
  \E p \in Workers :
    LET call == calls[p]
    IN /\ call.pc = "mark_reviewed"
       /\ review_file' = mark_reviewed(call.items, call.review_id,
                                       call.corrected_intent)
       /\ calls' = [calls EXCEPT ![p] = NoCall]
       /\ UNCHANGED <<collection, vector_found, crm, context_engine, called, intents, use_fast_memory, store_ok, memories, embeddings, ctx, now,
                      res, stats, stats_file, ack, memory_file, peer, submissions,
                      found>>

-----------------------------------------------------------------------------
(* ContextWeighter: scores in ten-thousandths *)

\* str.upper() on the strings that occur
Upper(s) ==
  CASE s = "off" -> "OFF"
    [] s = "on" -> "ON"
    [] OTHER -> s

\* a in b for strings, on the strings that occur
IsSubstring(a, b) ==
  \/ a = b
  \/ a = ""
  \/ <<a, b>> \in {<<"evening", "late evening">>, <<"test", "test run">>}

\* score * num / den
Scaled(score, num, den) == (score * num) \div den

\* user_history[-3:]
RecentHistory(user_history) ==
  IF Len(user_history) <= 3 THEN user_history
  ELSE SubSeq(user_history, Len(user_history) - 2, Len(user_history))

\* ContextWeighter._apply_association
apply_association(score, intent, context) ==
  IF /\ context.user_history # <<>>
     /\ intent.tags # <<>>
     /\ \E t \in 1..Len(intent.tags) :
          \E h \in 1..Len(RecentHistory(context.user_history)) :
            IsSubstring(Lower(intent.tags[t]),
                        Lower(RecentHistory(context.user_history)[h]))
  THEN score + 1500
  ELSE score

\* ContextWeighter._apply_opposition
apply_opposition(score, intent, context) ==
  IF intent.action = "" \/ context.system_state = "" THEN score
  ELSE IF /\ Lower(intent.action) \in {"turn_on", "enable", "start", "activate"}
          /\ Upper(context.system_state) \in {"ON", "ENABLED", "RUNNING", "ACTIVE"}
       THEN Scaled(score, 1, 10)
  ELSE IF /\ Lower(intent.action) \in {"turn_off", "disable", "stop", "deactivate"}
          /\ Upper(context.system_state) \in {"OFF", "DISABLED", "STOPPED", "INACTIVE"}
       THEN Scaled(score, 1, 10)
  ELSE score

\* ContextWeighter._apply_purpose
apply_purpose(score, intent, context) ==
  IF context.active_goal = "" \/ intent.goal_alignment = "" THEN score
  ELSE IF Lower(context.active_goal) = Lower(intent.goal_alignment) THEN score + 2000
  ELSE IF \/ IsSubstring(Lower(intent.goal_alignment), Lower(context.active_goal))
          \/ IsSubstring(Lower(context.active_goal), Lower(intent.goal_alignment))
       THEN score + 1000
  ELSE score

\* ContextWeighter._apply_situation
apply_situation(score, intent, context) ==
  IF context.current_screen # "" /\ intent.valid_screens # <<>>
  THEN IF \E i \in 1..Len(intent.valid_screens) :
            intent.valid_screens[i] = context.current_screen
       THEN score + 1500
       ELSE score - 500
  ELSE score

\* ContextWeighter._apply_indicator
apply_indicator(score, intent, context) ==
  LET flags == {Lower(context.syntax_flags[i]) : i \in 1..Len(context.syntax_flags)}
      type == Lower(intent.type)
  IN IF context.syntax_flags = <<>> \/ intent.type = "" THEN score
     ELSE IF "question" \in flags /\ type \in {"query", "ask", "question"}
          THEN score + 800
     ELSE IF "exclamation" \in flags /\ type \in {"command", "action", "imperative"}
          THEN score + 800
     ELSE IF "statement" \in flags /\ type \in {"statement", "information"}
          THEN score + 800
     ELSE score

\* Variant of the propriety factor that only halves a slang intent in
\* business mode
apply_propriety_halving(score, intent, context) ==
  IF context.social_mode = "" THEN score
  ELSE IF Lower(context.social_mode) = "business" /\ intent.contains_slang
       THEN Scaled(score, 1, 2)
  ELSE IF Lower(context.social_mode) = "casual" /\ intent.formality = "formal"
       THEN Scaled(score, 8, 10)
  ELSE IF \/ Lower(context.social_mode) = Lower(intent.formality)
          \/ intent.formality = "neutral"
       THEN Scaled(score, 11, 10)
  ELSE score

\* ContextWeighter._apply_propriety
apply_propriety(score, intent, context) ==
  IF context.social_mode = "" THEN score
  ELSE IF Lower(context.social_mode) = "business" /\ intent.contains_slang
       THEN Scaled(score, 0, 10)
  ELSE IF Lower(context.social_mode) = "casual" /\ intent.formality = "formal"
       THEN Scaled(score, 8, 10)
  ELSE IF \/ Lower(context.social_mode) = Lower(intent.formality)
          \/ intent.formality = "neutral"
       THEN Scaled(score, 11, 10)
  ELSE score

\* ContextWeighter._apply_place
apply_place(score, intent, context) ==
  IF intent.required_location = "" THEN score
  ELSE IF context.location # ""
       THEN IF Lower(context.location) = Lower(intent.required_location)
            THEN score + 1800
            ELSE score - 1500
  ELSE score - 500

\* ContextWeighter._apply_time
apply_time(score, intent, context) ==
  IF intent.time_specific = "" THEN score
  ELSE IF context.time_of_day # ""
       THEN IF Lower(context.time_of_day) = Lower(intent.time_specific)
            THEN score + 1500
            ELSE IF ~IsSubstring(Lower(intent.time_specific), Lower(context.time_of_day))
                 THEN score - 500
                 ELSE score
  ELSE score - 500

\* ContextWeighter._apply_individual
apply_individual(score, intent, context) ==
  LET user_profile == Lower(context.user_profile)
      vocab == Lower(intent.vocabulary_level)
  IN IF context.user_profile = "" \/ intent.vocabulary_level = "" THEN score
     ELSE IF user_profile = vocab THEN score + 1200
     ELSE IF IsSubstring(user_profile, vocab) \/ IsSubstring(vocab, user_profile)
          THEN score + 600
     ELSE IF vocab = "neutral" THEN score + 600
     ELSE score

\* ContextWeighter._apply_intonation
apply_intonation(score, intent, context) ==
  IF context.pitch = "" \/ intent.type = "" THEN score
  ELSE IF /\ Lower(context.pitch) = "rising"
          /\ Lower(intent.type) \in {"question", "query", "ask"}
       THEN score + 800
  ELSE IF /\ Lower(context.pitch) = "flat"
          /\ Lower(intent.type) \in {"statement", "command", "action"}
       THEN score + 800
  ELSE score

\* ContextWeighter._apply_distortion
apply_distortion(score, intent, context) ==
  IF context.input_fidelity < 5000
  THEN Scaled(score, 5000 + context.input_fidelity, 10000)
  ELSE score

\* ContextWeighter.apply_weights
apply_weights(intent, context) ==
  LET f1 == apply_association(context.base_score, intent, context)
      f2 == apply_opposition(f1, intent, context)
      f3 == apply_purpose(f2, intent, context)
      f4 == apply_situation(f3, intent, context)
      f5 == apply_indicator(f4, intent, context)
      f7 == apply_propriety(f5, intent, context)
      f8 == apply_place(f7, intent, context)
      f9 == apply_time(f8, intent, context)
      f10 == apply_individual(f9, intent, context)
      f11 == apply_intonation(f10, intent, context)
      f12 == apply_distortion(f11, intent, context)
  IN Max(0, Min(10000, f12))

\* The intent dict of the weighter's tests, and variations of it; a key
\* that is absent has the default intent.get gives it
WeighterIntent(contains_slang, formality, required_location, rest) ==
  [action |-> IF rest THEN "turn_on" ELSE "",
   type |-> IF rest THEN "command" ELSE "",
   tags |-> IF rest THEN <<"test", "example">> ELSE <<>>,
   goal_alignment |-> IF rest THEN "test_goal" ELSE "",
   valid_screens |-> IF rest THEN <<"home", "test">> ELSE <<>>,
   formality |-> formality,
   contains_slang |-> contains_slang,
   required_location |-> required_location,
   time_specific |-> IF rest THEN "evening" ELSE "",
   vocabulary_level |-> "neutral"]

WeighterIntents ==
  {WeighterIntent(contains_slang, formality, required_location, rest) :
     contains_slang \in BOOLEAN, formality \in {"neutral", "formal"},
     required_location \in {"", "home"}, rest \in BOOLEAN}

\* The context dict of the weighter's tests, and variations of it; a key
\* that is absent has the default context.get gives it
WeighterContext(base_score, social_mode, location, rest) ==
  [base_score |-> base_score,
   user_history |-> <<>>,
   system_state |-> IF rest THEN "OFF" ELSE "",
   active_goal |-> "",
   current_screen |-> IF rest THEN "home" ELSE "",
   syntax_flags |-> IF rest THEN <<"statement">> ELSE <<>>,
   social_mode |-> social_mode,
   location |-> location,
   time_of_day |-> IF rest THEN "evening" ELSE "",
   user_profile |-> IF rest THEN "general_user" ELSE "",
   pitch |-> IF rest THEN "flat" ELSE "",
   input_fidelity |-> IF rest THEN 9500 ELSE 10000]

WeighterContexts ==
  {WeighterContext(base_score, social_mode, location, rest) :
     base_score \in {0, 7500},
     social_mode \in {"", "business", "casual"},
     location \in {"", "home", "office"}, rest \in BOOLEAN}

\* No direct call on a context component yet
NoCalled ==
  [op |-> "none", error |-> "", intent |-> NoneVal, context |-> NoneVal,
   factor |-> NoneVal, weight |-> 0, result |-> 0]

\* A call of ContextWeighter.apply_weights(intent, context)
ApplyWeights ==
  \E intent \in WeighterIntents, context \in WeighterContexts :
    /\ called' = [NoCalled EXCEPT !.op = "apply_weights", !.intent = intent,
                                  !.context = context,
                                  !.result = apply_weights(intent, context)]
    /\ UNCHANGED <<collection, vector_found, intents, use_fast_memory, store_ok, memories, embeddings, ctx, now,
                   res, stats, stats_file, review_file, ack, memory_file, peer,
                   submissions, found, calls, crm, context_engine>>

-----------------------------------------------------------------------------
(* Factor weights: in hundredths *)

WeightValues == {0 - 5, 0, 25}

\* ContextResolutionMatrix.set_weight: [error, weights]
set_weight(factor, weight) ==
  IF factor \in DOMAIN crm.weights
  THEN [error |-> "", weights |-> [crm.weights EXCEPT ![factor] = weight]]
  ELSE [error |-> "ValueError", weights |-> crm.weights]

\* A call of crm.set_weight(factor, weight)
SetWeight ==
  \E factor \in {"desa", "sahacarya", "bogus"}, weight \in WeightValues :
    LET out == set_weight(factor, weight)
    IN /\ crm' = [crm EXCEPT !.weights = out.weights]
       /\ called' = [NoCalled EXCEPT !.op = "set_weight", !.error = out.error,
                                     !.factor = factor, !.weight = weight]
       /\ UNCHANGED <<collection, vector_found, intents, use_fast_memory, store_ok, memories, embeddings, ctx,
                      now, res, stats, stats_file, review_file, ack, memory_file, peer,
                      submissions, found, calls, context_engine>>

\* ContextResolutionEngine.update_weight: [error, weights]
update_weight(factor_name, new_weight) ==
  IF factor_name \notin DOMAIN DEFAULT_WEIGHTS
  THEN [error |-> "ValueError", weights |-> context_engine.weights]
  ELSE IF new_weight < 0
       THEN [error |-> "ValueError", weights |-> context_engine.weights]
  ELSE IF factor_name \notin DOMAIN context_engine.weights
       THEN [error |-> "KeyError", weights |-> context_engine.weights]
  ELSE [error |-> "",
        weights |-> [context_engine.weights EXCEPT ![factor_name] = new_weight]]

\* A call of context_engine.update_weight(factor_name, new_weight)
UpdateWeight ==
  \E factor_name \in {"location_context", "temporal_context", "bogus"},
     new_weight \in WeightValues :
    LET out == update_weight(factor_name, new_weight)
    IN /\ context_engine' = [context_engine EXCEPT !.weights = out.weights]
       /\ called' = [NoCalled EXCEPT !.op = "update_weight", !.error = out.error,
                                     !.factor = factor_name, !.weight = new_weight]
       /\ UNCHANGED <<collection, vector_found, intents, use_fast_memory, store_ok, memories, embeddings, ctx,
                      now, res, stats, stats_file, review_file, ack, memory_file, peer,
                      submissions, found, calls, crm>>

\* The weights arguments of the constructor; the empty one stands for None
CustomWeights ==
  {<<>>} \cup {[location_context |-> w] : w \in WeightValues}
         \cup {[location_context |-> 25, bogus |-> w] : w \in WeightValues}

\* ContextResolutionEngine.__init__: [error, weights of the engine held]
new_context_resolution_engine(weights) ==
  LET chosen == IF DOMAIN weights = {} THEN DEFAULT_WEIGHTS ELSE weights
  IN IF \E f \in DOMAIN chosen : chosen[f] < 0
     THEN [error |-> "ValueError", weights |-> context_engine.weights]
     ELSE [error |-> "", weights |-> chosen]

\* context_engine = ContextResolutionEngine(weights=weights): when the
\* constructor raises, the engine held before stays
NewContextResolutionEngine ==
  \E weights \in CustomWeights :
    LET out == new_context_resolution_engine(weights)
    IN /\ context_engine' = [context_engine EXCEPT !.weights = out.weights]
       /\ called' = [NoCalled EXCEPT !.op = "ContextResolutionEngine",
                                     !.error = out.error, !.context = weights]
       /\ UNCHANGED <<collection, vector_found, intents, use_fast_memory, store_ok, memories, embeddings, ctx,
                      now, res, stats, stats_file, review_file, ack, memory_file, peer,
                      submissions, found, calls, crm>>

-----------------------------------------------------------------------------
(* The two Fast Memory backends, given the same calls *)

\* FastMemory.add_memory of the vector-database backend: [error, collection];
\* without an embedding the collection embeds the document itself
vector_add_memory(user_input, resolved_intent_id, embedding, metadata) ==
  [error |-> "",
   collection |->
     Append(collection,
            [document |-> user_input, intent_id |-> resolved_intent_id,
             metadata |-> metadata,
             embedding |-> IF embedding # NoEmbedding THEN embedding
                           ELSE Embed(user_input)])]

\* The orders in which collection.query can return its n nearest entries:
\* by increasing cosine distance, entries at the same distance in any order
NearestOrders(embedding, n) ==
  LET count == Len(collection)
      distance(i) == 100 - Dot(collection[i].embedding, embedding)
  IN {order \in [1..n -> 1..count] :
        /\ \A a, b \in 1..n : a < b => order[a] # order[b]
        /\ \A a, b \in 1..n : a < b => distance(order[a]) <= distance(order[b])
        /\ \A i \in 1..count :
             (\A a \in 1..n : order[a] # i) =>
               \A a \in 1..n : distance(order[a]) <= distance(i)}

\* FastMemory.retrieve_candidates of the vector-database backend: the set
\* of lists it can return; similarity = 1.0 - distance
vector_retrieve_candidates(embedding, top_k) ==
  IF Len(collection) = 0 THEN {<<>>}
  ELSE {[j \in 1..Len(order) |->
           [intent_id |-> collection[order[j]].intent_id,
            original_text |-> collection[order[j]].document,
            similarity_score |->
              100 - (100 - Dot(collection[order[j]].embedding, embedding))]] :
          order \in NearestOrders(embedding, Min(top_k, Len(collection)))}

BackendEmbeddings == {1, 3, 6}

\* add_memory(user_input, resolved_intent_id, embedding) on both backends
BackendsAddMemory ==
  \E user_input \in StoredInputs, resolved_intent_id \in {"play_music", "financial_bank"},
     embedding \in BackendEmbeddings \cup {NoEmbedding} :
    LET metadata == [feedback_type |-> NoneVal, confidence |-> NoneNum,
                     feedback_timestamp |-> NoneNum]
        added == add_memory(user_input, resolved_intent_id, embedding, metadata)
        vector_added == vector_add_memory(user_input, resolved_intent_id, embedding,
                                          metadata)
    IN /\ Len(memories) < MaxStore
       /\ Len(collection) < MaxStore
       /\ memories' = added.memories
       /\ embeddings' = added.embeddings
       /\ found' = [NoFound EXCEPT !.op = "add_memory", !.error = added.error,
                                  !.embedding = embedding]
       /\ collection' = vector_added.collection
       /\ vector_found' = [NoFound EXCEPT !.op = "add_memory",
                                         !.error = vector_added.error,
                                         !.embedding = embedding]
       /\ UNCHANGED <<intents, use_fast_memory, store_ok, ctx, now, res, stats,
                      stats_file, review_file, ack, memory_file, peer, submissions,
                      calls, crm, context_engine, called>>

\* retrieve_candidates(user_input, embedding, top_k) on both backends
BackendsRetrieveCandidates ==
  \E embedding \in BackendEmbeddings, top_k \in {1, 2} :
    \E vector_result \in vector_retrieve_candidates(embedding, top_k) :
      /\ found' = [NoFound EXCEPT !.op = "retrieve_candidates",
                                 !.embedding = embedding, !.top_k = top_k,
                                 !.result = retrieve_candidates(embedding, top_k)]
      /\ vector_found' = [NoFound EXCEPT !.op = "retrieve_candidates",
                                        !.embedding = embedding, !.top_k = top_k,
                                        !.result = vector_result]
      /\ UNCHANGED <<intents, use_fast_memory, store_ok, ctx, now, res, stats,
                     stats_file, review_file, ack, memory_file, peer, submissions,
                     calls, crm, context_engine, called, memories, embeddings,
                     collection>>

\* clear_memory() on both backends
BackendsClearMemory ==
  /\ memories' = <<>>
  /\ embeddings' = <<>>
  /\ collection' = <<>>
  /\ found' = [NoFound EXCEPT !.op = "clear_memory"]
  /\ vector_found' = [NoFound EXCEPT !.op = "clear_memory"]
  /\ UNCHANGED <<intents, use_fast_memory, store_ok, ctx, now, res, stats,
                 stats_file, review_file, ack, memory_file, peer, submissions,
                 calls, crm, context_engine, called>>

\* get_memory_count() on both backends
BackendsGetMemoryCount ==
  /\ found' = [NoFound EXCEPT !.op = "get_memory_count", !.top_k = get_memory_count]
  /\ vector_found' = [NoFound EXCEPT !.op = "get_memory_count",
                                    !.top_k = Len(collection)]
  /\ UNCHANGED <<intents, use_fast_memory, store_ok, ctx, now, res, stats,
                 stats_file, review_file, ack, memory_file, peer, submissions,
                 calls, crm, context_engine, called, memories, embeddings,
                 collection>>

-----------------------------------------------------------------------------
(* Specifications *)

Init ==
  /\ intents \in {Catalog, SingleIntentCatalog, <<>>}
  /\ use_fast_memory \in BOOLEAN
  /\ store_ok = TRUE
  /\ memories = <<>>
  /\ embeddings = <<>>
  /\ ctx = NoneContext
  /\ now = 0
  /\ res = NoRes
  /\ stats = NoStats
  /\ stats_file = [exists |-> FALSE, data |-> NoStats]
  /\ review_file = <<>>
  /\ ack = NoAck
  /\ memory_file = NoFile
  /\ peer = NoPeer
  /\ submissions = 0
  /\ found = NoFound
  /\ calls = [p \in Workers |-> NoCall]
  /\ crm = [weights |-> Weights]
  /\ context_engine = [weights |-> DEFAULT_WEIGHTS]
  /\ called = NoCalled
  /\ collection = <<>>
  /\ vector_found = NoFound

\* The engine
Next ==
  \/ NewContext
  \/ Tick
  \/ Resolve
  \/ ResolveIntent
  \/ ClearMemory
  \/ StoreFails
  \/ StoreRecovers

Spec == Init /\ [][Next]_vars

\* The feedback loop alone
NextFeedback ==
  \/ Tick
  \/ ProcessFeedback
  \/ SubmitReinforcementFeedback
  \/ SaveToDisk
  \/ Restart

SpecFeedback == Init /\ [][NextFeedback]_vars

\* The feedback loop served by two worker processes
NextWorkers ==
  \/ Tick
  \/ ProcessFeedback
  \/ SwitchWorker

SpecWorkers == Init /\ [][NextWorkers]_vars

\* The Fast Memory store and Stage 1, called directly
NextMemory ==
  \/ AddMemory
  \/ RetrieveCandidates
  \/ GetSemanticCandidates
  \/ ClearMemory

SpecMemory == Init /\ [][NextMemory]_vars

\* The review queue under overlapping calls of two workers
NextQueue ==
  \/ QueueForReviewLoad
  \/ QueueForReviewAppend
  \/ MarkReviewedLoad
  \/ MarkReviewedRewrite

SpecQueue == Init /\ [][NextQueue]_vars

\* The context weighter, called directly
NextWeighter ==
  \/ ApplyWeights

SpecWeighter == Init /\ [][NextWeighter]_vars

\* The factor weights, set directly
NextWeights ==
  \/ SetWeight
  \/ UpdateWeight
  \/ NewContextResolutionEngine

SpecWeights == Init /\ [][NextWeights]_vars

\* The two Fast Memory backends under the same sequence of calls
NextBackends ==
  \/ BackendsAddMemory
  \/ BackendsRetrieveCandidates
  \/ BackendsClearMemory
  \/ BackendsGetMemoryCount

SpecBackends == Init /\ [][NextBackends]_vars

-----------------------------------------------------------------------------
(* Properties of a resolution *)

\* The latest call was resolve_with_hybrid_logic and it returned a result
Returned == res.op = "resolve" /\ res.status = "returned"

\* C1: for every result a resolution returns, the intent id is
\* "__fallback_uncertain__" if and only if fallback_used is true.
C1_FallbackIdIffFlag ==
  Returned =>
    ((res.value.intent = "__fallback_uncertain__") <=> res.value.fallback_used)

C1_Witness ==
  /\ Returned
  /\ res.value.fallback_used
  /\ res.value.intent = "__fallback_uncertain__"

\* C2: a resolution whose best post-boost confidence is below 0.6 returns the
\* fallback sentinel with fallback_used set; every result with fallback_used
\* false has a confidence of at least 0.6.
C2_BelowThresholdFallsBack ==
  Returned =>
    /\ res.value.confidence < 60 =>
         res.value.fallback_used /\ res.value.intent = "__fallback_uncertain__"
    /\ ~res.value.fallback_used => res.value.confidence >= 60

C2_Witness ==
  /\ Returned
  /\ res.value.confidence > 0
  /\ res.value.confidence < 60
  /\ res.value.fallback_used
  /\ res.value.active_factors = <<"low_confidence">>

\* The hard-stop rules, as C3 words them, for the catalog intent named id
TriggersHardStop(id, c) ==
  LET rc == intents[get_intent_by_id(id)].required_context
  IN \/ \E i \in 1..Len(c.conflict) :
          /\ Lower(c.conflict[i]) \in {"cancel", "stop", "close", "no"}
          /\ IdKeywords(id) \cap {"create", "start", "begin", "open"} # {}
     \/ /\ rc.location # NoneVal
        /\ rc.location_required
        /\ c.location # NoneVal
        /\ Lower(c.location) # Lower(rc.location)
     \/ /\ rc.user_profile # NoneVal
        /\ c.user_profile # NoneVal
        /\ c.user_profile # rc.user_profile

\* C3: a candidate that triggers a hard-stop rule is never the returned
\* intent, whatever its similarity, even when it scores highest.
C3_HardStopNeverReturned ==
  (Returned /\ ~res.value.fallback_used) => ~TriggersHardStop(res.value.intent, ctx)

\* The candidate Stage 1 ranked first triggers a hard stop and another is returned
C3_Witness ==
  /\ Returned
  /\ ~res.value.fallback_used
  /\ res.value.semantic_candidates # <<>>
  /\ TriggersHardStop(res.value.semantic_candidates[1].candidate_intent, ctx)
  /\ res.value.semantic_candidates[1].semantic_similarity = 100

\* C4: every score a resolution surfaces lies in [0, 1]: the confidence, the
\* context-adjusted score and the similarity of every Stage 1 candidate.
C4_ScoresInUnitInterval ==
  Returned =>
    /\ res.value.confidence \in 0..100
    /\ res.value.context_adjusted_score \in 0..100
    /\ \A i \in 1..Len(res.value.semantic_candidates) :
         res.value.semantic_candidates[i].semantic_similarity \in 0..100

\* A returned result lists a Stage 1 candidate with a negative similarity
C4_Witness ==
  /\ Returned
  /\ \E i \in 1..Len(res.value.semantic_candidates) :
       res.value.semantic_candidates[i].semantic_similarity < 0

\* The context as the caller built it, before any call wrote to it
AsBuilt(c) == [c EXCEPT !.distortion = NoneNum]

\* C5: calls of resolve with the same utterance and the same context, on an
\* unchanged catalog and Fast Memory, return identical results whatever the
\* time and whatever earlier calls left behind: every outcome is the one the
\* first call on that context has.
C5_Deterministic ==
  res.op = "resolve" =>
    LET same(first) == res.error = first.error /\ res.value = first.value
    IN same(resolve_with_hybrid_logic(res.user_input, AsBuilt(ctx)))

\* A result returned at a later time, on a context an earlier call wrote to
C5_Witness ==
  /\ Returned
  /\ ~res.value.fallback_used
  /\ now > 0
  /\ Distortion(res.user_input) = 0
  /\ ctx.distortion # NoneNum

\* The survivors of the hard stops among the candidates of the latest result,
\* with their boosted scores
Survivors ==
  {i \in 1..Len(res.value.semantic_candidates) :
     ~Discard(intents[get_intent_by_id(res.value.semantic_candidates[i].candidate_intent)],
              ctx)}

Boosted(i) ==
  BoostedScore(intents[get_intent_by_id(res.value.semantic_candidates[i].candidate_intent)],
               res.value.semantic_candidates[i].semantic_similarity, ctx)

PreBoost(i) == res.value.semantic_candidates[i].semantic_similarity

CatalogIndex(i) == get_intent_by_id(res.value.semantic_candidates[i].candidate_intent)

FromMemory(i) == res.value.semantic_candidates[i].source = "memory_boost"

IsWinner(w) ==
  /\ res.value.semantic_candidates[w].candidate_intent = res.value.intent
  /\ Boosted(w) = res.value.confidence

C7_NeverRaises == res.op = "resolve" => res.status = "returned"

\* A resolution on the default context (None) raises
C7_Witness ==
  /\ res.op = "resolve"
  /\ res.status = "raised"
  /\ ctx = NoneContext

-----------------------------------------------------------------------------
(* Properties of the feedback loop *)

\* C8: positive feedback adds exactly one exemplar to Fast Memory, adds one
\* to the correct counter and to the total, and leaves the incorrect counter
\* and the review queue as they were.
C8_PositiveFeedback ==
  (ack.op = "process_feedback" /\ ack.was_correct /\ use_fast_memory /\ ack.encoded) =>
    /\ ack.status = "returned"
    /\ get_memory_count = ack.before.memory_count + 1
    /\ stats.correct_feedbacks = ack.before.stats.correct_feedbacks + 1
    /\ stats.total_feedbacks = ack.before.stats.total_feedbacks + 1
    /\ stats.incorrect_feedbacks = ack.before.stats.incorrect_feedbacks
    /\ review_file = ack.before.review_file

\* Positive feedback with an embedding raised, and nothing was counted
C8_Witness ==
  /\ ack.op = "process_feedback"
  /\ ack.status = "raised"
  /\ ack.was_correct
  /\ ack.encoded
  /\ use_fast_memory
  /\ stats = ack.before.stats

\* C9: negative feedback appends exactly one pending item to the review
\* queue, adds one to the incorrect counter and to the total, and leaves the
\* Fast Memory count and the correct counter as they were.
C9_NegativeFeedback ==
  (ack.op = "process_feedback" /\ ~ack.was_correct) =>
    /\ ack.status = "returned"
    /\ Len(review_file) = Len(ack.before.review_file) + 1
    /\ SubSeq(review_file, 1, Len(ack.before.review_file)) = ack.before.review_file
    /\ review_file[Len(review_file)].status = "pending"
    /\ stats.incorrect_feedbacks = ack.before.stats.incorrect_feedbacks + 1
    /\ stats.total_feedbacks = ack.before.stats.total_feedbacks + 1
    /\ get_memory_count = ack.before.memory_count
    /\ stats.correct_feedbacks = ack.before.stats.correct_feedbacks

\* Negative feedback was queued behind an earlier item
C9_Witness ==
  /\ ack.op = "process_feedback"
  /\ ack.status = "returned"
  /\ ~ack.was_correct
  /\ ack.action_taken = "queued_for_review"
  /\ ack.before.review_file # <<>>

\* C10: when the Fast Memory write of a positive feedback fails, the
\* submission still returns an acknowledgement, reports "save_failed", and
\* the total and correct counters are incremented and persisted.
C10_WriteFailureIsSoft ==
  (/\ ack.op = "process_feedback"
   /\ ack.was_correct
   /\ use_fast_memory
   /\ add_memory(NoneVal, NoneVal,
                 IF ack.encoded THEN 0 ELSE NoEmbedding, NoneVal).error # "") =>
    /\ ack.status = "returned"
    /\ ack.action_taken = "save_failed"
    /\ stats.total_feedbacks = ack.before.stats.total_feedbacks + 1
    /\ stats.correct_feedbacks = ack.before.stats.correct_feedbacks + 1
    /\ stats_file = [exists |-> TRUE, data |-> stats]

\* Positive feedback whose write cannot succeed raised instead
C10_Witness ==
  /\ ack.op = "process_feedback"
  /\ ack.status = "raised"
  /\ ack.was_correct
  /\ ~ack.encoded
  /\ use_fast_memory
  /\ stats_file = [exists |-> FALSE, data |-> NoStats]

\* C11: after any sequence of feedback submissions through any feedback
\* entry point, whenever total is greater than 0 the accuracy counter equals
\* correct/total: the stored percentage, kept to one decimal, is within half
\* a tenth of 100 * correct / total.
C11_AccuracyIsRatio ==
  stats.total_feedbacks > 0 =>
    LET gap == stats.accuracy * stats.total_feedbacks - 1000 * stats.correct_feedbacks
    IN 2 * (IF gap < 0 THEN 0 - gap ELSE gap) <= stats.total_feedbacks

\* A success reported through the reinforcement entry point was counted
C11_Witness ==
  /\ ack.op = "submit_reinforcement_feedback"
  /\ ack.was_correct
  /\ stats.correct_feedbacks = ack.before.stats.correct_feedbacks + 1
  /\ stats.total_feedbacks > 0

\* C12: after a process restart at any point between operations, the Fast
\* Memory exemplars, the feedback counters and the review queue are exactly
\* what they were before the restart, and reloading them a second time gives
\* the same state as reloading once.
C12_RestartKeepsState ==
  [][Restart =>
       /\ memories' = memories
       /\ embeddings' = embeddings
       /\ stats' = stats
       /\ review_file' = review_file
       /\ use_fast_memory => /\ memories' = load_from_disk'.memories
                             /\ embeddings' = load_from_disk'.embeddings
       /\ stats' = load_stats']_vars

\* A restart came back without the exemplars the store held
C12_Witness ==
  /\ ack.op = "restart"
  /\ ack.before.memory_count > 0
  /\ memories = <<>>
  /\ stats = ack.before.stats
  /\ stats.total_feedbacks > 0

\* C13: writes to the feedback counters and to Fast Memory are serialized per
\* store: feedback submissions processed concurrently leave what processing
\* them one after the other leaves, so the persisted total is the number of
\* acknowledged submissions, no increment is lost, and the persisted
\* statistics are the in-memory counters of the process serving requests.
C13_SubmissionsSerialized ==
  stats_file.exists =>
    /\ stats_file.data.total_feedbacks = submissions
    /\ stats_file.data = stats

\* Two submissions were acknowledged, one by each worker process
C13_Witness ==
  /\ submissions = 2
  /\ ack.op = "process_feedback"
  /\ ack.status = "returned"
  /\ stats.total_feedbacks = 1
  /\ peer.stats.total_feedbacks = 1

-----------------------------------------------------------------------------
(* Frame and failure properties of a resolution *)

\* C17: candidate retrieval and validation have no side effects: a
\* resolution performed without write-back leaves the catalog, the Fast
\* Memory contents and the context object the caller passed in exactly as
\* they were before the call.
C17_ResolveHasNoSideEffects ==
  [][Resolve => UNCHANGED <<collection, vector_found, crm, context_engine, called, calls, intents, memories, embeddings, ctx>>]_vars

\* A resolution returned a result and left its distortion score on the
\* object the caller passed in
C17_Witness ==
  /\ Returned
  /\ Distortion(res.user_input) > 0
  /\ ctx.kind = "extended"
  /\ ctx.distortion = Distortion(res.user_input)

\* C18: if the Fast Memory query fails during a resolution, the failure is
\* not raised to the caller: the resolution proceeds with the catalog
\* candidates only and returns a result.
C18_QueryFailureIsSoft ==
  (res.op = "resolve" /\ query_raises) =>
    /\ res.error # "BackendError"
    /\ (res.status = "returned" /\ res.value.semantic_candidates # <<>>) =>
         \A i \in 1..Len(res.value.semantic_candidates) :
           res.value.semantic_candidates[i].source = "vector_search"

\* A resolution made while the store did not answer raised the store's error
C18_Witness ==
  /\ res.op = "resolve"
  /\ query_raises
  /\ intents # <<>>
  /\ res.status = "raised"
  /\ res.error = "BackendError"

-----------------------------------------------------------------------------
(* Properties of Stage 1 and of the Fast Memory store *)

\* The latest call was Stage 1 and it returned its candidate list
Stage1Returned == found.op = "get_semantic_candidates" /\ found.error = ""

\* C14: Stage 1 returns its candidates in non-increasing order of similarity
\* and never returns more than 5 of them, whatever the catalog size and the
\* number of stored Fast Memory exemplars.
C14_SortedAndAtMostFive ==
  Stage1Returned =>
    /\ Len(found.result) <= 5
    /\ \A i \in 1..(Len(found.result) - 1) :
         found.result[i].semantic_similarity >= found.result[i + 1].semantic_similarity

\* Stage 1 returned one candidate recalled from memory and five from the catalog
C14_Witness ==
  /\ Stage1Returned
  /\ Len(found.result) = 6
  /\ Cardinality({i \in 1..6 : found.result[i].source = "memory_boost"}) = 1

\* The intents the store recalls for the utterance of the latest Stage 1 call
RecalledIntents ==
  IF use_fast_memory
  THEN LET recalled(known) == {known[j].intent_id : j \in 1..Len(known)}
       IN recalled(retrieve_candidates(found.embedding, MemoryTopK))
  ELSE {}

\* C15: no two candidates returned by Stage 1 refer to the same intent id;
\* when an intent is reached both through Fast Memory and through catalog
\* retrieval, the single candidate kept for it is the memory-sourced one.
C15_OneCandidatePerIntent ==
  Stage1Returned =>
    /\ \A i, j \in 1..Len(found.result) :
         found.result[i].candidate_intent = found.result[j].candidate_intent => i = j
    /\ \A i \in 1..Len(found.result) :
         found.result[i].candidate_intent \in RecalledIntents =>
           found.result[i].source = "memory_boost"

\* Stage 1 returned two candidates recalled from memory for the same intent
C15_Witness ==
  /\ Stage1Returned
  /\ \E i, j \in 1..Len(found.result) :
       /\ i < j
       /\ found.result[i].candidate_intent = found.result[j].candidate_intent
       /\ found.result[i].source = "memory_boost"
       /\ found.result[j].source = "memory_boost"

\* C16 as stated: if the catalog is empty or the Fast Memory store is empty,
\* Stage 1 returns an empty candidate list and raises no error.
C16_EmptyStoreGivesNoCandidates ==
  (found.op = "get_semantic_candidates" /\ (intents = <<>> \/ memories = <<>>)) =>
    /\ found.error = ""
    /\ found.result = <<>>

\* C16, amended: if the catalog is empty Stage 1 returns an empty candidate
\* list; if the Fast Memory store is empty and the catalog is not, Stage 1
\* returns the catalog intents most similar to the input, at most 5 of them
\* and none attributed to memory; neither case raises an error.
C16_EmptyStoreGivesCatalogCandidates ==
  (found.op = "get_semantic_candidates" /\ (intents = <<>> \/ memories = <<>>)) =>
    /\ found.error = ""
    /\ intents = <<>> => found.result = <<>>
    /\ intents # <<>> =>
         /\ Len(found.result) = Min(5, Len(intents))
         /\ \A i \in 1..Len(found.result) :
              /\ found.result[i].source = "vector_search"
              /\ \A k \in 1..Len(intents) :
                   (\A j \in 1..Len(found.result) :
                      found.result[j].candidate_intent # intents[k].id) =>
                     cosine_similarity(found.embedding, intents[k].embedding)
                       <= found.result[i].semantic_similarity

\* Stage 1 ran on an empty memory store and returned catalog candidates
C16_Witness ==
  /\ found.op = "get_semantic_candidates"
  /\ use_fast_memory
  /\ memories = <<>>
  /\ found.error = ""
  /\ Len(found.result) = 5

\* C19: Fast Memory is append-only plus explicit clear: every add, successful
\* or failed, leaves the exemplars stored before it present and unchanged,
\* with one embedding per exemplar; a successful add raises the count by one,
\* a query changes nothing, and clear brings the count to 0.
C19_AppendOnly ==
  [][/\ AddMemory =>
          /\ Len(memories') >= Len(memories)
          /\ SubSeq(memories', 1, Len(memories)) = memories
          /\ SubSeq(embeddings', 1, Len(embeddings)) = embeddings
          /\ Len(embeddings') = Len(memories')
          /\ found'.error = "" => Len(memories') = Len(memories) + 1
     /\ RetrieveCandidates => UNCHANGED <<collection, vector_found, crm, context_engine, called, calls, memories, embeddings>>
     /\ ClearMemory => Len(memories') = 0 /\ Len(embeddings') = 0]_vars

\* An add failed and left an exemplar that has no embedding
C19_Witness ==
  /\ found.op = "add_memory"
  /\ found.error = "ValueError"
  /\ found.embedding = WrongShape
  /\ Len(memories) = Len(embeddings) + 1

\* The similarities of the stored exemplars to the embedding of the latest
\* query, in non-increasing order
RankedSimilarities ==
  LET ranked(similarities) ==
        Reverse([k \in 1..Len(similarities) |-> similarities[ArgSort(similarities)[k]]])
  IN ranked([i \in 1..Len(embeddings) |-> Dot(embeddings[i], found.embedding)])

\* C20: query(embedding, topK) on a store holding n exemplars returns exactly
\* min(topK, n) exemplars for every topK of 0 or more, these are the most
\* similar ones in non-increasing order of similarity, and the result is the
\* empty list when n = 0.  Stated of a store that holds one embedding per
\* exemplar.
C20_QueryReturnsTopK ==
  (found.op = "retrieve_candidates" /\ Len(embeddings) = Len(memories)) =>
    /\ Len(found.result) = Min(found.top_k, Len(memories))
    /\ \A j \in 1..Len(found.result) :
         /\ j <= Len(RankedSimilarities)
         /\ found.result[j].similarity_score = RankedSimilarities[j]
    /\ Len(memories) = 0 => found.result = <<>>

\* A query for zero exemplars returned every stored exemplar
C20_Witness ==
  /\ found.op = "retrieve_candidates"
  /\ found.top_k = 0
  /\ Len(embeddings) = Len(memories)
  /\ Len(memories) > 0
  /\ Len(found.result) = Len(memories)

-----------------------------------------------------------------------------
(* Fallback reasons and write-back *)

\* The reason C27 gives for a fallback, from the Stage 1 candidates of the
\* utterance and the context of the latest resolution
ExpectedReason(semantic_candidates) ==
  IF semantic_candidates = <<>> THEN "no_semantic_candidates"
  ELSE IF \A i \in 1..Len(semantic_candidates) :
            TriggersHardStop(semantic_candidates[i].candidate_intent, ctx)
       THEN "stage_2_failed"
       ELSE "low_confidence"

\* C27: a fallback result carries exactly one reason code:
\* no_semantic_candidates when Stage 1 returned no candidate, stage_2_failed
\* when candidates existed but every one was discarded by a hard-stop rule,
\* and low_confidence when a winner was selected with confidence below 0.6.
C27_OneFallbackReason ==
  (Returned /\ res.value.fallback_used) =>
    /\ Len(res.value.active_factors) = 1
    /\ res.value.active_factors[1] =
         ExpectedReason(get_semantic_candidates(
                          res.user_input, encode_input(res.user_input).embedding))
    /\ res.value.active_factors[1] = "low_confidence" => res.value.confidence < 60

\* Every candidate of Stage 1 was discarded and the fallback says so
C27_Witness ==
  /\ Returned
  /\ res.value.fallback_used
  /\ res.value.stage_1_passed
  /\ res.value.active_factors = <<"stage_2_failed">>

\* C28: resolve_intent adds exactly one exemplar to Fast Memory when the
\* result is not a fallback, store_in_memory is true and Fast Memory is
\* enabled, and adds none otherwise; the exemplar is the utterance with the
\* resolved intent, and the fallback sentinel id is never stored.
C28_WriteBack ==
  [][(res'.op = "resolve_intent" /\ (res' # res \/ memories' # memories)) =>
       IF /\ res'.status = "returned"
          /\ res'.resolved.intent # "__fallback_uncertain__"
          /\ res'.store_in_memory
          /\ use_fast_memory
       THEN /\ Len(memories') = Len(memories) + 1
            /\ SubSeq(memories', 1, Len(memories)) = memories
            /\ memories'[Len(memories')].document = res'.user_input
            /\ memories'[Len(memories')].intent_id = res'.resolved.intent
            /\ memories'[Len(memories')].intent_id # "__fallback_uncertain__"
       ELSE memories' = memories /\ embeddings' = embeddings]_vars

\* resolve_intent returned a catalog intent and stored the utterance under it
C28_Witness ==
  /\ res.op = "resolve_intent"
  /\ res.status = "returned"
  /\ res.resolved.intent \in IntentIds
  /\ Len(memories) = 1
  /\ memories[1].document = res.user_input
  /\ memories[1].intent_id = res.resolved.intent

-----------------------------------------------------------------------------
(* Feedback counters and the review queue *)

\* C29: starting from fresh statistics, after any sequence of feedback
\* submissions through any feedback entry point, total equals correct plus
\* incorrect, and no counter ever decreases.
C29_CountersAddUp ==
  /\ [](stats.total_feedbacks = stats.correct_feedbacks + stats.incorrect_feedbacks)
  /\ [][/\ stats'.total_feedbacks >= stats.total_feedbacks
         /\ stats'.correct_feedbacks >= stats.correct_feedbacks
         /\ stats'.incorrect_feedbacks >= stats.incorrect_feedbacks]_vars

\* Both entry points have counted: one success, one failure
C29_Witness ==
  /\ ack.op = "submit_reinforcement_feedback"
  /\ ack.before.stats.total_feedbacks = 1
  /\ stats.total_feedbacks = 2
  /\ stats.correct_feedbacks = 1
  /\ stats.incorrect_feedbacks = 1
  /\ review_file # <<>>

-----------------------------------------------------------------------------
(* The Fast Memory backends *)

\* Every similarity the two backends returned lies in [0, 1]
SimilaritiesNormalized ==
  \A r \in {found, vector_found} :
    r.op = "retrieve_candidates" =>
      \A i \in 1..Len(r.result) :
        r.result[i].similarity_score >= 0 /\ r.result[i].similarity_score <= 100

\* C21: the two Fast Memory backends are interchangeable: given the same
\* sequence of add, query, clear and count calls they accept the same
\* calls and return the same exemplars in the same order with the same
\* similarity values, normalized to [0, 1].
C21_BackendsInterchangeable ==
  /\ found.error = vector_found.error
  /\ found.result = vector_found.result
  /\ found.top_k = vector_found.top_k
  /\ SimilaritiesNormalized

\* add_memory without an embedding: the in-process backend raised and holds
\* nothing, the vector-database backend stored the exemplar
C21_Witness ==
  /\ found.op = "add_memory"
  /\ found.embedding = NoEmbedding
  /\ found.error = "ValueError"
  /\ vector_found.error = ""
  /\ Len(memories) = 0
  /\ Len(collection) = 1

-----------------------------------------------------------------------------
(* Context factors *)

\* The caller's context has no field set
IsEmptyContext(c) == get_active_factors(c) = <<>> /\ c.distortion = NoneNum

\* The similarity Stage 1 gave to the intent the result names
BaseScores(value) ==
  {value.semantic_candidates[i].semantic_similarity :
     i \in {j \in 1..Len(value.semantic_candidates) :
              value.semantic_candidates[j].candidate_intent = value.intent}}

\* C23: a context factor whose field is absent from the caller's context
\* changes no score and is not reported among the active factors; a
\* resolution with an empty context returns, with the score Stage 1 gave
\* and an empty list of active factors.
C23_AbsentFactorsAreNoOps ==
  res.op = "resolve" =>
    /\ IsEmptyContext(ctx) => res.status = "returned"
    /\ (res.status = "returned" /\ ~res.value.fallback_used) =>
         /\ \A i \in 1..Len(res.value.active_factors) :
              FactorIsActive(ctx, res.value.active_factors[i])
         /\ IsEmptyContext(ctx) =>
              /\ res.value.active_factors = <<>>
              /\ res.value.context_adjusted_score \in BaseScores(res.value)

\* A resolution with the empty dict as context raised TypeError
C23_Witness ==
  /\ res.op = "resolve"
  /\ ctx = EmptyDict
  /\ res.status = "raised"
  /\ res.error = "TypeError"

\* resolve_with_hybrid_logic("take me to the bank", ctx) was called on the
\* full catalogue with this location and association history
BankCall(location, history) ==
  /\ res.op = "resolve"
  /\ res.user_input = "take me to the bank"
  /\ intents = Catalog
  /\ ctx.location = location
  /\ ctx.history = history

\* The intent is among the Stage 1 candidates of the result
AmongCandidates(intent_id) ==
  \E i \in 1..Len(res.value.semantic_candidates) :
    res.value.semantic_candidates[i].candidate_intent = intent_id

\* The call returned, and its winner is the intent whenever both bank
\* intents were candidates
Yields(intent_id) ==
  /\ res.status = "returned"
  /\ (AmongCandidates("river_bank") /\ AmongCandidates("financial_bank")) =>
       res.value.intent = intent_id

\* C24: for "take me to the bank" with river_bank and financial_bank among
\* the candidates, location nature with history [fishing] yields
\* river_bank, and location city with history [money] yields
\* financial_bank.
C24_ContextFlipsWinner ==
  /\ BankCall("nature", <<"fishing">>) => Yields("river_bank")
  /\ BankCall("city", <<"money">>) => Yields("financial_bank")

\* In the city context, with both bank intents among the candidates, the
\* result is river_bank: the exemplar learned earlier ties with the
\* boosted financial_bank at the clamp and comes first
C24_Witness ==
  /\ BankCall("city", <<"money">>)
  /\ res.status = "returned"
  /\ AmongCandidates("river_bank")
  /\ AmongCandidates("financial_bank")
  /\ res.value.intent = "river_bank"
  /\ res.value.context_adjusted_score = 100

\* Every weight the two components hold
HeldWeights ==
  {crm.weights[f] : f \in DOMAIN crm.weights}
    \cup {context_engine.weights[f] : f \in DOMAIN context_engine.weights}

\* C22: every factor weight held is non-negative at all times: a
\* construction with a negative weight fails, and a later update with a
\* negative value is rejected and leaves the weights unchanged.
C22_WeightsNonNegative ==
  /\ \A w \in HeldWeights : w >= 0
  /\ (called.op \in {"set_weight", "update_weight"} /\ called.weight < 0) =>
       called.error # ""
  /\ (/\ called.op = "ContextResolutionEngine"
      /\ \E f \in DOMAIN called.context : called.context[f] < 0) =>
       called.error # ""

\* set_weight("desa", -0.05) returned and the matrix holds the weight
C22_Witness ==
  /\ called.op = "set_weight"
  /\ called.factor = "desa"
  /\ called.weight < 0
  /\ called.error = ""
  /\ crm.weights["desa"] = called.weight

\* C26: for an intent flagged as containing slang, evaluated in business
\* social mode, apply_weights returns exactly 0.0, whatever the base score
\* and the other context factors.
C26_SlangBlockedInBusiness ==
  (/\ called.op = "apply_weights"
   /\ called.intent.contains_slang
   /\ Lower(called.context.social_mode) = "business") =>
    called.result = 0

\* The intent and context of test_propriety_block_slang_in_business: the
\* score is 0.47
C26_Witness ==
  /\ called.op = "apply_weights"
  /\ called.intent = WeighterIntent(TRUE, "neutral", "home", TRUE)
  /\ called.context = WeighterContext(7500, "business", "home", TRUE)
  /\ called.result = 4700

-----------------------------------------------------------------------------
(* The review queue under overlapping calls *)

\* Some worker completes mark_reviewed on this id in the step
MarksId(review_id) ==
  \E p \in Workers :
    /\ calls[p].pc = "mark_reviewed"
    /\ calls[p].review_id = review_id
    /\ calls'[p].pc = "idle"

\* The two items differ at most in status and corrected_intent
SameSubmission(a, b) ==
  \A k \in {"id", "original_input", "resolved_intent", "correct_intent",
            "confidence", "timestamp"} : a[k] = b[k]

\* C25: a review-queue item, once appended, is changed only by
\* mark_reviewed on its own id, which moves it to resolved; every other
\* step leaves each existing item in place and unchanged, none removes an
\* item, and a resolved item never becomes pending again.
C25_ItemsChangeOnlyByOwnMark ==
  [][\A i \in 1..Len(review_file) :
       /\ i <= Len(review_file')
       /\ \/ review_file'[i] = review_file[i]
          \/ /\ MarksId(review_file[i].id)
             /\ SameSubmission(review_file'[i], review_file[i])
             /\ review_file'[i].status = "resolved"
       /\ review_file[i].status = "resolved" => review_file'[i].status = "resolved"]_vars

\* Both negative submissions were appended and no call is in progress, yet
\* the queue holds one item: a rewrite from stale items removed the other
C25_Witness ==
  /\ \A p \in Workers : calls[p].pc = "idle"
  /\ submissions = 2
  /\ stats.total_feedbacks + peer.stats.total_feedbacks = 2
  /\ Len(review_file) = 1

\* C30: after any interleaving of negative feedback submissions and
\* mark_reviewed calls, no two review-queue items share an id.
C30_UniqueReviewIds ==
  \A i, j \in 1..Len(review_file) :
    i # j => review_file[i].id # review_file[j].id

\* Two items carry the same id, and mark_reviewed on it has resolved the
\* first of them only
C30_Witness ==
  \E i, j \in 1..Len(review_file) :
    /\ i < j
    /\ review_file[i].id = review_file[j].id
    /\ review_file[i].status = "resolved"
    /\ review_file[j].status = "pending"

=============================================================================
